---- MODULE Spec2Model ----
(***************************************************************************)
(* Food shelf-life estimator (src/app.py): the estimation engine           *)
(* compute_estimate, the formatter format_hours and the results block of   *)
(* the Streamlit script.                                                   *)
(*                                                                         *)
(* Every number the engine computes with is a Python float (multiplier     *)
(* starts as 1.0), so the arithmetic is IEEE-754 binary64 with             *)
(* round-to-nearest-even.  A float is modelled exactly: a sign, a 53-bit   *)
(* mantissa and a binary exponent.  The mantissa does not fit a TLC        *)
(* integer, so it is kept as a little-endian sequence of 14-bit limbs.     *)
(***************************************************************************)
EXTENDS Integers, Sequences, FiniteSets, TLC

(***************************************************************************)
(* Natural numbers of any size: little-endian limbs, no leading zero limb, *)
(* zero is << >>.                                                          *)
(***************************************************************************)
\* LET x == v IN F(x), with v evaluated once however often F uses x
With(v, F(_)) == CHOOSE r \in {F(x) : x \in {v}} : TRUE

LimbBits == 7 * 2

Base == 2 ^ LimbBits

\* the number of limbs of a up to its top non-zero limb, at most n
RECURSIVE Limbs(_, _)
Limbs(a, n) == IF n = 0 \/ a[n] # 0 THEN n ELSE Limbs(a, n - 1)

BNorm(a) == With(a, LAMBDA x : SubSeq(x, 1, Limbs(x, Len(x))))

RECURSIVE BFromInt(_)
BFromInt(n) ==
    IF n = 0 THEN << >> ELSE <<n % Base>> \o BFromInt(n \div Base)

RECURSIVE BToInt(_)
BToInt(a) ==
    IF a = << >> THEN 0 ELSE a[1] + Base * BToInt(Tail(a))

RECURSIVE BAddC(_, _, _)
BAddC(a, b, c) ==
    IF a = << >> /\ b = << >>
    THEN (IF c = 0 THEN << >> ELSE <<c>>)
    ELSE LET x == IF a = << >> THEN 0 ELSE a[1]
             y == IF b = << >> THEN 0 ELSE b[1]
             s == x + y + c
         IN  <<s % Base>> \o BAddC(IF a = << >> THEN a ELSE Tail(a),
                                   IF b = << >> THEN b ELSE Tail(b),
                                   s \div Base)

BAdd(a, b) == With(a, LAMBDA x : With(b, LAMBDA y : BAddC(x, y, 0)))

\* a - b for a >= b
RECURSIVE BSubC(_, _, _)
BSubC(a, b, c) ==
    IF a = << >> THEN << >>
    ELSE LET y == IF b = << >> THEN 0 ELSE b[1]
             d == a[1] - y - c
         IN  <<(d + Base) % Base>> \o BSubC(Tail(a),
                                            IF b = << >> THEN b ELSE Tail(b),
                                            IF d < 0 THEN 1 ELSE 0)

BSub(a, b) == With(a, LAMBDA x : With(b, LAMBDA y : BNorm(BSubC(x, y, 0))))

\* a * d for a limb-sized d (0 <= d <= Base)
RECURSIVE BMulLimbC(_, _, _)
BMulLimbC(a, d, c) ==
    IF a = << >> THEN BFromInt(c)
    ELSE LET p == a[1] * d + c
         IN  <<p % Base>> \o BMulLimbC(Tail(a), d, p \div Base)

BMulLimb(a, d) == With(a, LAMBDA x : BNorm(BMulLimbC(x, d, 0)))

\* a * Base
BShiftLimb(a) == IF a = << >> THEN a ELSE <<0>> \o a

RECURSIVE BMulRec(_, _)
BMulRec(a, b) ==
    IF a = << >> \/ b = << >> THEN << >>
    ELSE BAdd(BMulLimb(a, b[1]), With(BMulRec(a, Tail(b)), BShiftLimb))

BMul(a, b) == With(a, LAMBDA x : With(b, LAMBDA y : BMulRec(x, y)))

\* -1, 0, 1 as a < b, a = b, a > b
RECURSIVE BCmpTop(_, _, _)
BCmpTop(a, b, i) ==
    IF i = 0 THEN 0
    ELSE IF a[i] < b[i] THEN 0 - 1
    ELSE IF a[i] > b[i] THEN 1
    ELSE BCmpTop(a, b, i - 1)

BCmpVal(a, b) ==
    IF Len(a) < Len(b) THEN 0 - 1
    ELSE IF Len(a) > Len(b) THEN 1
    ELSE BCmpTop(a, b, Len(a))

BCmp(a, b) == With(a, LAMBDA x : With(b, LAMBDA y : BCmpVal(x, y)))

\* floor(a / d) and a mod d for 1 <= d <= Base: long division from the top limb,
\* hi the quotient and remainder of the limbs above limb i
BDivStep(a, d, i, hi) ==
    With(hi.r * Base + a[i], LAMBDA cur : [q |-> <<cur \div d>> \o hi.q, r |-> cur % d])

RECURSIVE BDivRec(_, _, _)
BDivRec(a, d, i) ==
    IF i > Len(a) THEN [q |-> << >>, r |-> 0]
    ELSE With(BDivRec(a, d, i + 1), LAMBDA hi : BDivStep(a, d, i, hi))

BDivRem(a, d) == With(a, LAMBDA x : BDivRec(x, d, 1))

BDivSmall(a, d) == BNorm(BDivRem(a, d).q)

BModSmall(a, d) == BDivRem(a, d).r

RECURSIVE Zeros(_)
Zeros(n) == IF n = 0 THEN << >> ELSE <<0>> \o Zeros(n - 1)

\* a * 2^n
BShlVal(a, n) ==
    IF a = << >> THEN << >>
    ELSE Zeros(n \div LimbBits) \o BMulLimb(a, 2 ^ (n % LimbBits))

BShl(a, n) == With(a, LAMBDA x : With(n, LAMBDA k : BShlVal(x, k)))

\* floor(a / 2^n)
BShrVal(a, n) ==
    IF n \div LimbBits >= Len(a) THEN << >>
    ELSE BDivSmall(SubSeq(a, n \div LimbBits + 1, Len(a)), 2 ^ (n % LimbBits))

BShr(a, n) == With(a, LAMBDA x : With(n, LAMBDA k : BShrVal(x, k)))

RECURSIVE IntBitLen(_)
IntBitLen(n) == IF n = 0 THEN 0 ELSE 1 + IntBitLen(n \div 2)

BBitLenVal(a) ==
    IF a = << >> THEN 0 ELSE LimbBits * (Len(a) - 1) + IntBitLen(a[Len(a)])

BBitLen(a) == With(a, BBitLenVal)

BIsOdd(a) == a # << >> /\ a[1] % 2 = 1

(***************************************************************************)
(* binary64.  A float is [neg, m, e] with value (-1)^neg * m * 2^e, m a    *)
(* natural of exactly MantBits bits, or m = << >> for zero.  Python's ==   *)
(* does not tell -0.0 from 0.0, so zero is kept unsigned.  The exponents   *)
(* the engine meets are far from the subnormal and overflow ranges.        *)
(***************************************************************************)
MantBits == 52 + 1

DZero == [neg |-> FALSE, m |-> << >>, e |-> 0]

\* M with its low sh bits rounded away, to nearest, ties to even
RoundOff(M, sh) ==
    With(BShr(M, sh), LAMBDA q :
        With(BCmp(BSub(M, BShl(q, sh)), BShl(<<1>>, sh - 1)), LAMBDA c :
            IF c > 0 \/ (c = 0 /\ BIsOdd(q)) THEN BAdd(q, <<1>>) ELSE q))

\* the float of mantissa q, of MantBits bits or (after a carry) one more
Carry(neg, q, e) ==
    IF BBitLenVal(q) > MantBits
    THEN [neg |-> neg, m |-> BShr(q, 1), e |-> e + 1]
    ELSE [neg |-> neg, m |-> q, e |-> e]

DRoundVal(neg, M, e, L) ==
    IF M = << >> THEN DZero
    ELSE IF L <= MantBits
    THEN [neg |-> neg, m |-> BShl(M, MantBits - L), e |-> e - (MantBits - L)]
    ELSE With(RoundOff(M, L - MantBits), LAMBDA q : Carry(neg, q, e + (L - MantBits)))

\* the float nearest to (-1)^neg * M * 2^e, ties to even
DRound(neg, M, e) ==
    With(neg, LAMBDA s : With(M, LAMBDA x : With(e, LAMBDA k :
        DRoundVal(s, x, k, BBitLenVal(x)))))

\* float(n) for a Python int n
DFromInt(n) == DRound(n < 0, BFromInt(IF n < 0 THEN 0 - n ELSE n), 0)

\* the float a decimal literal n/d denotes (json.load, and the literals of the
\* source): the quotient to GuardBits more bits than kept, a sticky bit below
GuardBits == 5 * LimbBits

Sticky(qr) ==
    IF qr.r = 0 THEN BShl(BNorm(qr.q), 1) ELSE BAdd(BShl(BNorm(qr.q), 1), <<1>>)

Dec(n, d) ==
    DRound(n < 0,
           With(BDivRem(BShl(BFromInt(IF n < 0 THEN 0 - n ELSE n), GuardBits), d), Sticky),
           0 - (GuardBits + 1))

\* x * y
DMulVal(x, y) == DRound(x.neg # y.neg, BMul(x.m, y.m), x.e + y.e)

DMul(x, y) == With(x, LAMBDA a : With(y, LAMBDA b : DMulVal(a, b)))

\* -1, 0, 1 as x < y, x = y, x > y
DCmpAbs(x, y) ==
    IF x.m = << >> THEN (IF y.m = << >> THEN 0 ELSE 0 - 1)
    ELSE IF y.m = << >> THEN 1
    ELSE IF x.e < y.e THEN 0 - 1
    ELSE IF x.e > y.e THEN 1
    ELSE BCmp(x.m, y.m)

DCmpVal(x, y) ==
    IF x.neg /\ ~y.neg THEN 0 - 1
    ELSE IF ~x.neg /\ y.neg THEN 1
    ELSE IF x.neg THEN 0 - DCmpAbs(x, y)
    ELSE DCmpAbs(x, y)

DCmp(x, y) == With(x, LAMBDA a : With(y, LAMBDA b : DCmpVal(a, b)))

DLe(x, y) == DCmp(x, y) <= 0

DGt(x, y) == DCmp(x, y) > 0

DLt(x, y) == DCmp(x, y) < 0

\* int(x) for a float x >= 0 below 2^31: the integer part
DIntPartVal(x) ==
    IF x.m = << >> THEN << >>
    ELSE IF x.e >= 0 THEN BShl(x.m, x.e) ELSE BShr(x.m, 0 - x.e)

DIntPart(x) == With(x, DIntPartVal)

\* the fraction of |x| in units of 2^e (zero when e >= 0)
DFracPartVal(x) ==
    IF x.m = << >> \/ x.e >= 0 THEN << >>
    ELSE BSub(x.m, BShl(BShr(x.m, 0 - x.e), 0 - x.e))

DFracPart(x) == With(x, DFracPartVal)

(***************************************************************************)
(* The rules dataset.  rules.json is data, not code: this is a dataset of  *)
(* the documented format, with the cases the engine distinguishes: base    *)
(* hours 0, below 6, exactly 6, above 6 and a year; a declared state with  *)
(* no table (raw rice) and a declared storage with no entry under a state  *)
(* that has a table (boiled milk at room temperature); factors below and   *)
(* above 1, and a zero and a negative factor, which json.load accepts.     *)
(* A JSON object is a Python dict: a function, with its keys in file order.*)
(***************************************************************************)
NoEntries == [k \in {} |-> DZero]

foods ==
    [cooked_rice |->
        [states   |-> <<"cooked", "raw">>,
         storages |-> <<"room_temp", "refrigerated", "frozen">>,
         shelf_life_hours |->
            [cooked |-> [room_temp    |-> DFromInt(4),
                         refrigerated |-> DFromInt(72),
                         frozen       |-> DFromInt(8760)]]],
     milk |->
        [states   |-> <<"raw", "boiled">>,
         storages |-> <<"room_temp", "refrigerated">>,
         shelf_life_hours |->
            [raw    |-> [room_temp    |-> DFromInt(0),
                         refrigerated |-> DFromInt(6)],
             boiled |-> [refrigerated |-> DFromInt(12)]]]]

modifier_keys ==
    <<"opened", "airtight_container", "vacuum_sealed", "zero_factor", "negative_factor">>

modifiers ==
    [opened             |-> Dec(8, 10),
     airtight_container |-> Dec(125, 100),
     vacuum_sealed      |-> Dec(15, 10),
     zero_factor        |-> DFromInt(0),
     negative_factor    |-> Dec(0 - 5, 10)]

sensory_keys == <<"off_odor", "mold">>

sensory_flags == [off_odor |-> "Off odor or sour smell", mold |-> "Visible mold"]

None == [kind |-> "None"]

\* dict.get(key): the value, or None
Get(dict, key) == IF key \in DOMAIN dict THEN dict[key] ELSE None

\* dict.get(key, {})
GetOrEmpty(dict, key) == IF key \in DOMAIN dict THEN dict[key] ELSE NoEntries

\* Python truth of modifiers.get(m): None and 0 are false
Truthy(factor) == factor # None /\ factor.m # << >>

HoursPerYear == 24 * 365

\* the numbers of compute_estimate, as floats
One == DFromInt(1)

Half == Dec(5, 10)

ThreeQuarters == Dec(75, 100)

Six == DFromInt(6)

SeventyTwo == DFromInt(72)

Year == DFromInt(HoursPerYear)

(***************************************************************************)
(* format_hours                                                            *)
(***************************************************************************)
\* int(h // 24): float floor division (fmod, then the quotient moves down by
\* one when the remainder's sign differs from the divisor's)
FloorDiv24Val(h, qr) ==
    IF ~h.neg THEN BToInt(BNorm(qr.q))
    ELSE IF qr.r # 0 \/ DFracPartVal(h) # << >> THEN 0 - BToInt(BNorm(qr.q)) - 1
    ELSE 0 - BToInt(BNorm(qr.q))

FloorDiv24(h) ==
    With(h, LAMBDA x : With(BDivRem(DIntPartVal(x), 24), LAMBDA qr : FloorDiv24Val(x, qr)))

\* int(h % 24): fmod is exact; for a negative h the remainder is fmod + 24,
\* a float addition, rounded
Mod24Val(h, r, fr) ==
    IF ~h.neg THEN r
    ELSE IF r = 0 /\ fr = << >> THEN 0
    ELSE IF fr = << >> THEN 24 - r
    ELSE BToInt(DIntPart(
             DRound(FALSE, BSub(BShl(BFromInt(24 - r), 0 - h.e), fr), h.e)))

Mod24(h) ==
    With(h, LAMBDA x : With(BModSmall(DIntPartVal(x), 24), LAMBDA r :
        With(DFracPartVal(x), LAMBDA fr : Mod24Val(x, r, fr))))

RECURSIVE Join(_, _)
Join(sep, parts) ==
    IF parts = << >> THEN ""
    ELSE IF Len(parts) = 1 THEN parts[1]
    ELSE parts[1] \o sep \o Join(sep, Tail(parts))

\* the hours printed even when they are zero
PartsAlwaysHours(days, hours) ==
    IF days # 0 THEN <<ToString(days) \o "d", ToString(hours) \o "h">>
    ELSE <<ToString(hours) \o "h">>

Parts(days, hours) ==
    LET parts1 == IF days # 0 THEN <<ToString(days) \o "d">> ELSE << >>
        parts2 == IF hours # 0 THEN Append(parts1, ToString(hours) \o "h") ELSE parts1
    IN  IF parts2 = << >> THEN <<"0h">> ELSE parts2

format_hours(h) ==
    With(h, LAMBDA x : With(FloorDiv24(x), LAMBDA days : With(Mod24(x), LAMBDA hours :
        Join(" ", Parts(days, hours)))))

(***************************************************************************)
(* compute_estimate                                                        *)
(***************************************************************************)
\* modifiers.get(m, 0.5): a key the dataset does not know halves the estimate
FactorOfDefaulted(m) == IF m \in DOMAIN modifiers THEN modifiers[m] ELSE Half

\* modifiers.get(m)
FactorOf(m) == Get(modifiers, m)

\* the loop over selected_mod_keys, in list order
\* one turn of the loop
ApplyModifier(multiplier, m) ==
    With(FactorOf(m), LAMBDA factor :
        IF Truthy(factor) THEN DMul(multiplier, factor) ELSE multiplier)

RECURSIVE ApplyModifiers(_, _)
ApplyModifiers(multiplier, keys) ==
    IF keys = << >> THEN multiplier
    ELSE With(ApplyModifier(multiplier, Head(keys)), LAMBDA next :
             ApplyModifiers(next, Tail(keys)))

\* base_hours < 6: the boundary on the wrong side
LowerBoundStrict(base_hours, est_hours) ==
    IF DLt(base_hours, Six)
    THEN DMul(est_hours, Half)
    ELSE DMul(est_hours, ThreeQuarters)

LowerBound(base_hours, est_hours) ==
    IF DLe(base_hours, Six)
    THEN DMul(est_hours, Half)
    ELSE DMul(est_hours, ThreeQuarters)

UpperBound(est_hours) ==
    IF DGt(est_hours, Year) THEN Year ELSE est_hours

\* upper < 6 and upper < 72: the boundaries on the wrong side
RiskOfStrict(upper) ==
    IF DLt(upper, Six) THEN "High perishability"
    ELSE IF DLt(upper, SeventyTwo) THEN "Moderate perishability"
    ELSE "Low perishability"

RiskOf(upper) ==
    IF DLe(upper, Six) THEN "High perishability"
    ELSE IF DLe(upper, SeventyTwo) THEN "Moderate perishability"
    ELSE "Low perishability"

\* foods.get(food_name, {"shelf_life_hours": {}}): an unknown food has no data
LookupFoodDefaulted(food_name) ==
    [kind |-> "food",
     food |-> IF food_name \in DOMAIN foods THEN foods[food_name]
              ELSE [states |-> << >>, storages |-> << >>, shelf_life_hours |-> NoEntries]]

LookupFood(food_name) ==
    IF food_name \in DOMAIN foods
    THEN [kind |-> "food", food |-> foods[food_name]]
    ELSE [kind |-> "KeyError", key |-> food_name]

LookupBase(shelf, state, storage) == Get(GetOrEmpty(shelf, state), storage)

\* if not base_hours: zero hours taken for no data
NoBaseFalsy(base_hours) == IF base_hours = None THEN TRUE ELSE base_hours.m = << >>

\* if base_hours is None
NoBase(base_hours) == base_hours = None

Window(base_hours, est_hours, upper) ==
    [kind        |-> "result",
     base_hours  |-> base_hours,
     lower_hours |-> LowerBound(base_hours, est_hours),
     upper_hours |-> upper,
     risk        |-> RiskOf(upper)]

Estimate(base_hours, selected_mod_keys) ==
    With(DMul(base_hours, ApplyModifiers(One, selected_mod_keys)),
         LAMBDA est_hours :
             With(UpperBound(est_hours), LAMBDA upper :
                 Window(base_hours, est_hours, upper)))

compute_estimate(food_name, state, storage, selected_mod_keys) ==
    LET found == LookupFood(food_name)
    IN  IF found.kind = "KeyError" THEN found
        ELSE With(LookupBase(found.food.shelf_life_hours, state, storage),
                  LAMBDA base_hours :
                      IF NoBase(base_hours) THEN None
                      ELSE Estimate(base_hours, selected_mod_keys))

(***************************************************************************)
(* The script.  Streamlit runs it top to bottom once at start and again    *)
(* after every change of a widget; the widgets keep their values between   *)
(* runs, and st.button is True only in the run its click started.          *)
(***************************************************************************)
\* sorted(foods.keys())
food_names == <<"cooked_rice", "milk">>

\* k.replace("_", " ").title(), for the keys of the dataset
modifier_labels ==
    [opened             |-> "Opened",
     airtight_container |-> "Airtight Container",
     vacuum_sealed      |-> "Vacuum Sealed",
     zero_factor        |-> "Zero Factor",
     negative_factor    |-> "Negative Factor"]

sensory_labels == sensory_flags

Range(f) == {f[x] : x \in DOMAIN f}

\* the keys, in dict order, whose label is among the selected labels
KeysOfLabels(keys, labels, selected) ==
    SelectSeq(keys, LAMBDA k : labels[k] \in selected)

\* the override taken only when every flag is selected
SensoryOverrideAll(selected_sensory_keys) == selected_sensory_keys = sensory_keys

\* if selected_sensory_keys: a non-empty list is true
SensoryOverride(selected_sensory_keys) == selected_sensory_keys # << >>

DiscardText == "Sensory warning: Discard immediately based on selected sensory issues."

NoDataText == "No data available for this combination of state and storage."

\* what the results block renders for a result of compute_estimate
Render(result) ==
    IF result.kind = "KeyError"
    THEN [called |-> TRUE, shown |-> [kind |-> "exception"]]
    ELSE IF result = None
    THEN [called |-> TRUE, shown |-> [kind |-> "warning", text |-> NoDataText]]
    ELSE [called |-> TRUE,
          shown  |-> [kind   |-> "estimate",
                      base   |-> format_hours(result.base_hours),
                      window |-> format_hours(result.lower_hours) \o " - "
                                 \o format_hours(result.upper_hours),
                      risk   |-> result.risk]]

\* the results block of a run the button did not start: the caption
NotClicked == [called |-> FALSE, shown |-> [kind |-> "caption"]]

\* the results block of a run the button started: what it renders, and whether
\* it called compute_estimate
Results(food, state, storage, mod_labels, sens_labels) ==
    LET selected_mod_keys     == KeysOfLabels(modifier_keys, modifier_labels, mod_labels)
        selected_sensory_keys == KeysOfLabels(sensory_keys, sensory_labels, sens_labels)
    IN  IF SensoryOverride(selected_sensory_keys)
        THEN [called |-> FALSE, shown |-> [kind |-> "error", text |-> DiscardText]]
        ELSE With(compute_estimate(food, state, storage, selected_mod_keys), Render)

VARIABLES
    food_choice,               \* st.selectbox("Food / Dish")
    state_choice,              \* st.selectbox("State")
    storage_choice,            \* st.selectbox("Storage")
    selected_modifier_labels,  \* st.multiselect, step 2
    selected_sensory_labels,   \* st.multiselect, step 3
    estimate_clicked,          \* st.button
    engine_called,             \* whether the last run called compute_estimate
    shown,                     \* what the results block of the last run rendered
    args,                      \* the arguments of a call of compute_estimate
    outcome,                   \* what that call returned or raised
    h_arg,                     \* the argument of a call of format_hours
    h_text                     \* what that call returned

widgets == <<food_choice, state_choice, storage_choice,
             selected_modifier_labels, selected_sensory_labels>>

page == <<estimate_clicked, engine_called, shown>>

engine == <<args, outcome>>

formatter == <<h_arg, h_text>>

vars == <<widgets, page, engine, formatter>>

Pending == [kind |-> "pending"]

NoArgs == [food_name |-> "", state |-> "", storage |-> "", selected_mod_keys |-> << >>]

\* the first run: every selectbox on its first option, nothing selected
FirstRun ==
    /\ food_choice = food_names[1]
    /\ state_choice = foods[food_names[1]].states[1]
    /\ storage_choice = foods[food_names[1]].storages[1]
    /\ selected_modifier_labels = {}
    /\ selected_sensory_labels = {}
    /\ estimate_clicked = FALSE
    /\ engine_called = FALSE
    /\ shown = NotClicked.shown

\* one run of the script with the widgets as given, results the outcome of its
\* results block
Rerun(clicked, food, state, storage, mod_labels, sens_labels, results) ==
    /\ food_choice' = food
    /\ state_choice' = state
    /\ storage_choice' = storage
    /\ selected_modifier_labels' = mod_labels
    /\ selected_sensory_labels' = sens_labels
    /\ estimate_clicked' = clicked
    /\ \E r \in {results} :
           /\ engine_called' = r.called
           /\ shown' = r.shown
    /\ UNCHANGED <<engine, formatter>>

\* a selectbox whose options changed starts again on its first option
Kept(choice, old_options, new_options) ==
    IF old_options = new_options THEN choice ELSE new_options[1]

SelectFood(f) ==
    /\ f # food_choice
    /\ Rerun(FALSE, f,
             Kept(state_choice, foods[food_choice].states, foods[f].states),
             Kept(storage_choice, foods[food_choice].storages, foods[f].storages),
             selected_modifier_labels, selected_sensory_labels, NotClicked)

SelectState(s) ==
    /\ s # state_choice
    /\ Rerun(FALSE, food_choice, s, storage_choice,
             selected_modifier_labels, selected_sensory_labels, NotClicked)

SelectStorage(s) ==
    /\ s # storage_choice
    /\ Rerun(FALSE, food_choice, state_choice, s,
             selected_modifier_labels, selected_sensory_labels, NotClicked)

Toggle(set, x) == IF x \in set THEN set \ {x} ELSE set \cup {x}

ToggleModifier(lbl) ==
    Rerun(FALSE, food_choice, state_choice, storage_choice,
          Toggle(selected_modifier_labels, lbl), selected_sensory_labels, NotClicked)

ToggleSensory(lbl) ==
    Rerun(FALSE, food_choice, state_choice, storage_choice,
          selected_modifier_labels, Toggle(selected_sensory_labels, lbl), NotClicked)

ClickEstimate ==
    Rerun(TRUE, food_choice, state_choice, storage_choice,
          selected_modifier_labels, selected_sensory_labels,
          Results(food_choice, state_choice, storage_choice,
                  selected_modifier_labels, selected_sensory_labels))

Init ==
    /\ FirstRun
    /\ args = NoArgs
    /\ outcome = Pending
    /\ h_arg = 0
    /\ h_text = ""

Next ==
    \/ \E f \in Range(food_names) : SelectFood(f)
    \/ \E s \in Range(foods[food_choice].states) : SelectState(s)
    \/ \E s \in Range(foods[food_choice].storages) : SelectStorage(s)
    \/ \E lbl \in Range(modifier_labels) : ToggleModifier(lbl)
    \/ \E lbl \in Range(sensory_labels) : ToggleSensory(lbl)
    \/ ClickEstimate

Spec == Init /\ [][Next]_vars

(***************************************************************************)
(* compute_estimate on its own: any food, state and storage string the     *)
(* dataset does or does not know, and any list of modifier keys, with      *)
(* repeats and unknown keys, of at most MaxMods keys.                      *)
(***************************************************************************)
MaxMods == 3

FoodInputs == DOMAIN foods \cup {"unknown_food"}

StateInputs == {"raw", "cooked", "boiled"}

StorageInputs == {"room_temp", "refrigerated", "frozen"}

ModInputs == DOMAIN modifiers \cup {"unknown_modifier"}

ModLists == UNION {[1..n -> ModInputs] : n \in 0..MaxMods}

InitEngine ==
    /\ FirstRun
    /\ args \in [food_name : FoodInputs, state : StateInputs,
                 storage : StorageInputs, selected_mod_keys : ModLists]
    /\ outcome = Pending
    /\ h_arg = 0
    /\ h_text = ""

CallEstimate ==
    /\ outcome = Pending
    /\ outcome' = compute_estimate(args.food_name, args.state, args.storage,
                                   args.selected_mod_keys)
    /\ UNCHANGED <<widgets, page, args, formatter>>

NextEngine == CallEstimate

SpecEngine == InitEngine /\ [][NextEngine]_vars

(***************************************************************************)
(* format_hours on its own, on a whole number of hours up to MaxHours.     *)
(***************************************************************************)
MaxHours == 8784

InitFormat ==
    /\ FirstRun
    /\ args = NoArgs
    /\ outcome = Pending
    /\ h_arg \in 0..MaxHours
    /\ h_text = ""

FormatHours ==
    /\ h_text = ""
    /\ h_text' = format_hours(DFromInt(h_arg))
    /\ UNCHANGED <<widgets, page, engine, h_arg>>

NextFormat == FormatHours

SpecFormat == InitFormat /\ [][NextFormat]_vars

(***************************************************************************)
(* Properties                                                              *)
(***************************************************************************)
Called == outcome # Pending

Returned == outcome.kind = "result"

\* every key of the list is a modifier of the dataset with a positive factor,
\* as the dataset's contract has it
WellFormedKeys(keys) ==
    \A i \in DOMAIN keys :
        keys[i] \in DOMAIN modifiers /\ DGt(modifiers[keys[i]], DZero)

\* no key of the list has a non-positive factor in the dataset
NoBadFactor(keys) ==
    \A i \in DOMAIN keys :
        keys[i] \in DOMAIN modifiers => DGt(modifiers[keys[i]], DZero)

\* C1: whenever compute_estimate finds base hours, the window it returns has
\* lower_hours <= upper_hours and upper_hours <= 24*365.  (Stated for the lists
\* whose factors are positive, so that a sign flip is not what refutes it.)
C1_WindowOrdered ==
    (Returned /\ NoBadFactor(args.selected_mod_keys))
        => /\ DLe(outcome.lower_hours, outcome.upper_hours)
           /\ DLe(outcome.upper_hours, Year)

\* C2: a click with a sensory flag selected always renders the discard
\* directive and never calls compute_estimate, whatever else is selected;
\* compute_estimate is called only by a click with no sensory flag selected.
C2_SensoryVeto ==
    LET keys == KeysOfLabels(sensory_keys, sensory_labels, selected_sensory_labels)
    IN  /\ (estimate_clicked /\ keys # << >>)
              => (shown = [kind |-> "error", text |-> DiscardText] /\ ~engine_called)
        /\ engine_called => (estimate_clicked /\ keys = << >>)

C2_Witness ==
    /\ estimate_clicked
    /\ selected_sensory_labels = {sensory_flags["mold"]}
    /\ selected_modifier_labels # {}
    /\ shown.kind = "error"
    /\ ~engine_called

HasEntry(food_name, state, storage) ==
    /\ state \in DOMAIN foods[food_name].shelf_life_hours
    /\ storage \in DOMAIN foods[food_name].shelf_life_hours[state]

\* C4: for a food of the dataset and any state and storage, compute_estimate
\* never raises; it returns None when the table has no entry for the state or
\* none for the storage under it, and a result exactly when the entry exists.
C4_MissingEntryIsNone ==
    (Called /\ args.food_name \in DOMAIN foods) =>
        /\ outcome.kind \in {"None", "result"}
        /\ Returned <=> HasEntry(args.food_name, args.state, args.storage)

C4_Witness ==
    /\ args.food_name = "milk"
    /\ args.state = "boiled"
    /\ args.storage = "room_temp"
    /\ outcome = None

\* the factors the loop applies: those of the keys the dataset knows, zero left out
RECURSIVE AppliedProduct(_, _)
AppliedProduct(product, keys) ==
    IF keys = << >> THEN product
    ELSE IF Head(keys) \in DOMAIN modifiers /\ modifiers[Head(keys)] # DZero
    THEN With(DMul(product, modifiers[Head(keys)]),
              LAMBDA next : AppliedProduct(next, Tail(keys)))
    ELSE AppliedProduct(product, Tail(keys))

\* C5: with estimated_hours = base_hours * the product of the applied factors,
\* lower_hours is estimated_hours * 0.5 when base_hours <= 6 and
\* estimated_hours * 0.75 otherwise: base_hours alone decides.
C5_LowerBoundRule ==
    Returned =>
        With(DMul(outcome.base_hours, AppliedProduct(One, args.selected_mod_keys)),
             LAMBDA estimated_hours :
                 outcome.lower_hours =
                     IF DCmp(outcome.base_hours, Six) <= 0
                     THEN DMul(estimated_hours, Half)
                     ELSE DMul(estimated_hours, ThreeQuarters))

\* base hours exactly 6 and an estimate above 6: the 0.5 rule, by the base
C5_Witness ==
    /\ Returned
    /\ outcome.base_hours = Six
    /\ DGt(outcome.upper_hours, Six)
    /\ outcome.lower_hours = DMul(outcome.upper_hours, Half)

\* C6: the risk tier is a function of the returned upper_hours alone: High iff
\* upper_hours <= 6, Moderate iff 6 < upper_hours <= 72, Low iff upper_hours > 72.
C6_RiskByUpper ==
    Returned =>
        /\ outcome.risk = "High perishability" <=> DCmp(outcome.upper_hours, Six) <= 0
        /\ outcome.risk = "Moderate perishability"
              <=> (DCmp(outcome.upper_hours, Six) > 0
                   /\ DCmp(outcome.upper_hours, SeventyTwo) <= 0)
        /\ outcome.risk = "Low perishability"
              <=> DCmp(outcome.upper_hours, SeventyTwo) > 0

\* upper_hours above 6 from base hours of at most 6: Moderate, by the upper bound
C6_Witness ==
    /\ Returned
    /\ DLe(outcome.base_hours, Six)
    /\ DGt(outcome.upper_hours, Six)
    /\ DLt(outcome.lower_hours, Six)
    /\ outcome.risk = "Moderate perishability"

Injective(f) == \A i, j \in DOMAIN f : f[i] = f[j] => i = j

Orders(n) == {f \in [1..n -> 1..n] : Injective(f)}

Permuted(keys, f) == [i \in DOMAIN keys |-> keys[f[i]]]

\* C7: for a fixed food, state and storage, compute_estimate returns the same
\* result for any two lists of modifier keys that are permutations of each
\* other.  (Stated for the lists of well-formed modifiers.)
C7_OrderIndependent ==
    (Returned /\ WellFormedKeys(args.selected_mod_keys)) =>
        \A f \in Orders(Len(args.selected_mod_keys)) :
            compute_estimate(args.food_name, args.state, args.storage,
                             Permuted(args.selected_mod_keys, f)) = outcome

InsertAt(keys, i, key) ==
    SubSeq(keys, 1, i) \o <<key>> \o SubSeq(keys, i + 1, Len(keys))

\* C8: for a food of the dataset, a key the dataset's modifiers lack, added to
\* the list at any position, leaves the outcome of compute_estimate as it was,
\* and raises nothing.
C8_UnknownKeyIgnored ==
    (Called /\ args.food_name \in DOMAIN foods) =>
        \A key \in ModInputs \ DOMAIN modifiers :
            \A i \in 0..Len(args.selected_mod_keys) :
                compute_estimate(args.food_name, args.state, args.storage,
                                 InsertAt(args.selected_mod_keys, i, key)) = outcome

C8_Witness ==
    /\ Returned
    /\ Len(args.selected_mod_keys) = 2
    /\ args.selected_mod_keys[1] = "unknown_modifier"
    /\ args.selected_mod_keys[2] = "opened"
    /\ outcome.upper_hours = DMul(outcome.base_hours, modifiers["opened"])
    /\ outcome.upper_hours # outcome.base_hours

\* what C9 says format_hours prints for a whole number h of hours
Printed(h) ==
    IF h \div 24 # 0 /\ h % 24 # 0
    THEN ToString(h \div 24) \o "d" \o " " \o ToString(h % 24) \o "h"
    ELSE IF h \div 24 # 0 THEN ToString(h \div 24) \o "d"
    ELSE IF h % 24 # 0 THEN ToString(h % 24) \o "h"
    ELSE "0h"

\* C9: for a whole number h >= 0 of hours, format_hours prints days = h div 24
\* as 'Xd' when non-zero and the remainder h mod 24 as 'Yh' when non-zero,
\* joined by one space, and '0h' when both are zero.
C9_FormatHours ==
    h_text # "" =>
        /\ h_text = Printed(h_arg)
        /\ h_arg = 0 => h_text = "0h"
        /\ h_arg = 6 => h_text = "6h"
        /\ h_arg = 24 => h_text = "1d"
        /\ h_arg = 36 => h_text = "1d 12h"
        /\ h_arg = 24 * 365 => h_text = "365d"

C9_Witness == h_arg = 24 * 365 /\ h_text = "365d"

\* C10: a modifier whose factor is zero or negative counts as a no-op, so that
\* from base hours >= 0 the returned lower_hours and upper_hours are >= 0.
C10_NoSignFlip ==
    (Returned /\ DLe(DZero, outcome.base_hours)) =>
        /\ DLe(DZero, outcome.lower_hours)
        /\ DLe(DZero, outcome.upper_hours)

====
